---- MODULE Spec2Model ----
(***************************************************************************)
(* Model of the Arabic RAG system's ingestion pipeline:                    *)
(*   - DocumentProcessor.chunk_text (src/document_processor.py), modelled  *)
(*     as the while loop it is, one iteration per step;                    *)
(*   - the Streamlit session of src/app.py: upload, Process, Process All   *)
(*     and Delete over st.session_state.documents, the data directory and  *)
(*     the vector store collection of src/vector_store.py;                 *)
(*   - the extractors of DocumentProcessor with the OCR fallback of        *)
(*     src/ocr_processor.py, followed through one process_document call;   *)
(*   - VectorStore.add_documents and search, and RAGEngine.query           *)
(*     (src/rag_engine.py), each followed through one call.                *)
(***************************************************************************)
EXTENDS Integers, Sequences, FiniteSets, TLC

VARIABLES
    \* chunk_text locals
    text,        \* the text argument, a sequence of characters
    start,       \* local `start`
    chunks,      \* local `chunks`, the list being built
    windows,     \* the (start, end) pairs sliced at line 273, in order
    cpc,         \* position in chunk_text: "idle", "loop", "done"
    \* session state of app.py
    documents,   \* st.session_state.documents
    data_dir,    \* files under DATA_DIR: name -> bytes
    collection,  \* the vector store collection: set of entries
    now,         \* the clock read by datetime.now(): the uploads accepted so far
    last_save,   \* doc_info, error of line 155 in this run of the script
    processed,   \* <<>> in a run of the script without a Process All click, else
                 \* <<the positions process_document was called on, in order>>
    messages,    \* st.session_state.messages, the chat history
    \* one call followed on its own
    outcome,     \* what the collaborators of the call do
    result,      \* the dict a callee handed back: process_file's, search's
    returned,    \* the value the call returned, <<>> before it returns
    calls,       \* the requests made to the embedding service, the collection
                 \* and the language model, in order; in a process_document
                 \* call, the arguments of its add_documents call
    rpc          \* position in the call

chunk_vars == <<text, start, chunks, windows, cpc>>
app_vars == <<documents, data_dir, collection, now, last_save, processed, messages>>
call_vars == <<outcome, result, returned, calls, rpc>>
vars == <<text, start, chunks, windows, cpc,
          documents, data_dir, collection, now, last_save, processed, messages,
          outcome, result, returned, calls, rpc>>

Max(S) == CHOOSE x \in S : \A y \in S : y <= x
Min(S) == CHOOSE x \in S : \A y \in S : x <= y

(***************************************************************************)
(* Python string primitives used by chunk_text.                            *)
(***************************************************************************)

\* Index normalisation of a slice bound: negative counts from the end,
\* and the result is clamped to 0..n.
SliceBound(i, n) ==
    IF i < 0 THEN (IF i + n < 0 THEN 0 ELSE i + n)
    ELSE (IF i > n THEN n ELSE i)

\* s[lo:hi]
Slice(s, lo, hi) ==
    LET a == SliceBound(lo, Len(s))
        b == SliceBound(hi, Len(s))
    IN  IF a >= b THEN <<>> ELSE SubSeq(s, a + 1, b)

\* The set of positions of s that s[lo:hi] takes (0-based).
SlicePositions(s, lo, hi) ==
    LET a == SliceBound(lo, Len(s))
        b == SliceBound(hi, Len(s))
    IN  IF a >= b THEN {} ELSE a .. (b - 1)

\* s.rfind(pat): highest 0-based index at which pat occurs, -1 if none.
RFind(s, pat) ==
    LET hits == {k \in 0 .. (Len(s) - Len(pat)) :
                    \A j \in 1 .. Len(pat) : s[k + j] = pat[j]}
    IN  IF hits = {} THEN -1 ELSE Max(hits)

Whitespace == {" ", "LF"}

\* s.strip(): s without its leading and trailing whitespace.
Strip(s) ==
    LET keep == {i \in 1 .. Len(s) : s[i] \notin Whitespace}
    IN  IF keep = {} THEN <<>>
        ELSE LET first == CHOOSE i \in keep : \A j \in 1 .. (i - 1) : s[j] \in Whitespace
                 last == CHOOSE i \in keep : \A j \in (i + 1) .. Len(s) : s[j] \in Whitespace
             IN  SubSeq(s, first, last)

(***************************************************************************)
(* chunk_text                                                              *)
(***************************************************************************)

chunk_size == 1000
overlap == 200

\* The sentence endings of line 267, in the order they are tried:
\* '. ', U+3002, U+FF01, U+061F, '\n\n'.
Puncts == << <<".", " ">>, <<"U3002">>, <<"UFF01">>, <<"U061F">>, <<"LF", "LF">> >>

\* WindowEnd without the test of line 265: the last window is cut as well.
WindowEndAlwaysCut(t, st) ==
    LET end0 == st + chunk_size
        found == {k \in 1 .. Len(Puncts) : RFind(Slice(t, st, end0), Puncts[k]) # -1}
    IN  IF found # {}
        THEN LET p == Puncts[Min(found)]
             IN  st + RFind(Slice(t, st, end0), p) + Len(p)
        ELSE end0

\* Lines 262-271: the end of the window that starts at `st`.
WindowEnd(t, st) ==
    LET end0 == st + chunk_size
        found == {k \in 1 .. Len(Puncts) : RFind(Slice(t, st, end0), Puncts[k]) # -1}
    IN  IF end0 < Len(t) /\ found # {}
        THEN LET p == Puncts[Min(found)]
             IN  st + RFind(Slice(t, st, end0), p) + Len(p)
        ELSE end0

\* NextStart that forgets the overlap.
NextStartNoOverlap(end) == end

\* Line 277.
NextStart(end) == end - overlap

(***************************************************************************)
(* The texts chunk_text is run on: a core of letters "a" with at most one  *)
(* sentence ending placed in it, between leading blanks and trailing line  *)
(* feeds; and cores with two sentence endings, the same or different, in   *)
(* the first window.                                                       *)
(***************************************************************************)

MaxLen == 2500    \* longest core
MaxIter == 7      \* loop iterations followed before a run is abandoned

CoreLens == {0, 1, 2} \cup {n \in 1 .. MaxLen : n % 100 = 0 \/ n % 800 \in {1, 799}}
PunctAt == {0, 100, 198, 199, 600, 998, 1000}
Pads == {<<0, 0>>, <<2, 1>>, <<0, 2>>}

Core(n, k, p) ==
    [i \in 1 .. n |->
        IF k # 0 /\ i - 1 >= p /\ i - 1 < p + Len(Puncts[k])
        THEN Puncts[k][i - p] ELSE "a"]

\* A core of 1500 letters with ending k1 at offset 300 and ending k2 at
\* offset 600.
TwoEndings(k1, k2) ==
    [i \in 1 .. 1500 |->
        IF i - 1 >= 300 /\ i - 1 < 300 + Len(Puncts[k1]) THEN Puncts[k1][i - 300]
        ELSE IF i - 1 >= 600 /\ i - 1 < 600 + Len(Puncts[k2]) THEN Puncts[k2][i - 600]
        ELSE "a"]

Texts ==
    {[i \in 1 .. pad[1] |-> " "] \o Core(n, 0, 0) \o [i \in 1 .. pad[2] |-> "LF"] :
        n \in CoreLens, pad \in Pads}
    \cup
    {Core(n, k, p) : n \in {m \in CoreLens : m % 500 = 0 /\ m > 0},
                     k \in 1 .. Len(Puncts),
                     p \in PunctAt}
    \cup
    {TwoEndings(k1, k2) : k1, k2 \in 1 .. Len(Puncts)}

\* No character of t is a blank or part of a sentence ending.
Plain(t) == \A i \in 1 .. Len(t) : t[i] = "a"

\* Lines 254-259: an empty text returns [] at once.
ChunkEnter ==
    /\ cpc = "call"
    /\ cpc' = IF text = <<>> THEN "done" ELSE "loop"
    /\ UNCHANGED <<text, start, chunks, windows>>
    /\ UNCHANGED <<app_vars, call_vars>>

\* Lines 261-277: one iteration of the while loop.
ChunkIter ==
    /\ cpc = "loop"
    /\ start < Len(text)
    /\ Len(windows) < MaxIter
    /\ LET end == WindowEnd(text, start)
           chunk == Strip(Slice(text, start, end))
       IN  /\ chunks' = IF chunk # <<>> THEN Append(chunks, chunk) ELSE chunks
           /\ windows' = Append(windows, <<start, end>>)
           /\ start' = NextStart(end)
    /\ UNCHANGED <<text, cpc>>
    /\ UNCHANGED <<app_vars, call_vars>>

\* Lines 261, 279: the loop condition fails and chunks is returned.
ChunkReturn ==
    /\ cpc = "loop"
    /\ ~(start < Len(text))
    /\ cpc' = "done"
    /\ UNCHANGED <<text, start, chunks, windows>>
    /\ UNCHANGED <<app_vars, call_vars>>

ChunkNext == ChunkEnter \/ ChunkIter \/ ChunkReturn

(***************************************************************************)
(* The session of app.py.  Python dicts are functions from keys to values, *)
(* a key that was never set is not in the DOMAIN.  List positions are      *)
(* 1-based here and 0-based in the source.  A value that may be None is a  *)
(* sequence of length at most one.                                         *)
(***************************************************************************)

MaxChunks == 4     \* most chunks an extracted text is split into
MaxUploads == 2    \* uploads accepted in one session

\* d[k] = v
SetKey(d, k, v) == (k :> v) @@ d

\* uploaded_file.type as the browser reports it for the file's extension.
TypeOf(name) ==
    CASE name = "a.pdf" -> "application/pdf"
      [] name = "b.png" -> "image/png"
      [] name = "d.docx" ->
            "application/vnd.openxmlformats-officedocument.wordprocessingml.document"
      [] name = "e.xlsx" ->
            "application/vnd.openxmlformats-officedocument.spreadsheetml.sheet"
      [] name = "f.jpg" -> "image/jpeg"
      [] OTHER -> "text/plain"

\* The files the user can drop on the uploader: name, bytes, MIME type.
UploadedFiles ==
    {[name |-> f[1], bytes |-> f[2], type |-> TypeOf(f[1])] :
        f \in {<<"a.pdf", <<1>>>>, <<"a.pdf", <<2, 2>>>>,
               <<"b.png", <<2, 2>>>>, <<"c.txt", <<1>>>>}}

\* hashlib.sha256(file_bytes).hexdigest(): a fixed-length lowercase hex
\* string, distinct for distinct contents (digests shortened to 4 digits).
get_file_hash(file_bytes) ==
    CASE file_bytes = <<1>> -> "4bf5"
      [] file_bytes = <<2, 2>> -> "a1fc"
      [] OTHER -> "e3b0"

\* IsDuplicate that compares the digest with the wrong key of the dict.
IsDuplicateWrongKey(docs, file_hash) ==
    \E i \in 1 .. Len(docs) : docs[i]["name"] = file_hash

\* Lines 56-58: the digest is that of a tracked document.
IsDuplicate(docs, file_hash) ==
    \E i \in 1 .. Len(docs) : docs[i]["hash"] = file_hash

\* str(DATA_DIR / name)
FilePath(name) == "data/" \o name

\* save_uploaded_file, lines 49-78, for a file that is read and written
\* without an I/O error.  The result is the returned pair and the data
\* directory afterwards.
save_uploaded_file(docs, dir, uploaded_file, clock) ==
    LET file_hash == get_file_hash(uploaded_file.bytes)
        file_path == FilePath(uploaded_file.name)
        doc_info == [name |-> uploaded_file.name,
                     path |-> file_path,
                     hash |-> file_hash,
                     size |-> Len(uploaded_file.bytes),
                     uploaded_at |-> clock,
                     status |-> "uploaded",
                     type |-> uploaded_file.type]
    IN  IF IsDuplicate(docs, file_hash)
        THEN [doc_info |-> <<>>, error |-> <<"Duplicate file detected">>, dir |-> dir]
        ELSE [doc_info |-> <<doc_info>>, error |-> <<>>,
              dir |-> SetKey(dir, file_path, uploaded_file.bytes)]

\* ChunkId that leaves the digest out.
ChunkIdNoHash(hash, idx) == "chunk_" \o ToString(idx)

\* f"{doc_info['hash']}_{idx}", line 116
ChunkId(hash, idx) == hash \o "_" \o ToString(idx)

\* The metadata with the page of a chunk counted from 0.
ChunkMetadataPageFromZero(doc_info, idx) ==
    [document_name |-> doc_info["name"],
     chunk_id |-> idx,
     page |-> idx \div 3,
     uploaded_at |-> doc_info["uploaded_at"]]

\* Lines 109-114
ChunkMetadata(doc_info, idx) ==
    [document_name |-> doc_info["name"],
     chunk_id |-> idx,
     page |-> (idx \div 3) + 1,
     uploaded_at |-> doc_info["uploaded_at"]]

(***************************************************************************)
(* VectorStore (vector_store.py).  The collection is a set of entries      *)
(* [id, document, metadata] with pairwise distinct ids.                    *)
(***************************************************************************)

Ids(coll) == {e.id : e \in coll}

\* collection.add: an entry whose id is already in the collection is
\* ignored, the others are inserted.
CollectionAdd(coll, entries) ==
    coll \cup {e \in entries : e.id \notin Ids(coll)}

\* add_documents that filters the chunks and the ids but not the metadatas:
\* the k-th chunk kept is paired with the k-th metadata of the list.
add_documentsUnaligned(coll, chunk_list, metadatas, ids, emb_ok, add_raises) ==
    LET valid == {i \in 1 .. Len(chunk_list) : i \in emb_ok}
        entries == {[id |-> ids[i], document |-> chunk_list[i],
                     metadata |-> metadatas[Cardinality({j \in valid : j <= i})]] :
                        i \in valid}
    IN  IF valid = {} \/ add_raises
        THEN [ok |-> FALSE, coll |-> coll]
        ELSE [ok |-> TRUE, coll |-> CollectionAdd(coll, entries)]

\* add_documents, lines 59-102.  emb_ok: the positions whose get_embedding
\* returned a vector; add_raises: collection.add raises.
add_documents(coll, chunk_list, metadatas, ids, emb_ok, add_raises) ==
    LET valid == {i \in 1 .. Len(chunk_list) : i \in emb_ok}
        entries == {[id |-> ids[i], document |-> chunk_list[i],
                     metadata |-> metadatas[i]] : i \in valid}
    IN  IF valid = {} \/ add_raises
        THEN [ok |-> FALSE, coll |-> coll]
        ELSE [ok |-> TRUE, coll |-> CollectionAdd(coll, entries)]

\* collection.get(where={"document_name": document_name})
EntriesOf(coll, document_name) ==
    {e \in coll : e.metadata.document_name = document_name}

\* delete_document whose get() has no where clause.
delete_documentAll(coll, document_name) == {}

\* delete_document, lines 151-175
delete_document(coll, document_name) ==
    coll \ EntriesOf(coll, document_name)

(***************************************************************************)
(* Extraction (document_processor.py, ocr_processor.py).  What a file and  *)
(* the OCR service do in one process_file call is an extraction:           *)
(*   pages         the texts of the file's pages (PDF), paragraphs (Word)  *)
(*                 or rows (spreadsheet), as the library hands them out;   *)
(*   raise_at      0, or the position of the part at which the library     *)
(*                 raises; position 1 also stands for a file it cannot     *)
(*                 open;                                                   *)
(*   ocr_available DocumentProcessor was built with an ocr_processor;      *)
(*   ocr_ok        the pages (1 for an image file) whose transcription by  *)
(*                 the vision model succeeded;                             *)
(*   ocr_raises    process_scanned_pdf cannot open the file.               *)
(* The page texts are short representatives: process_pdf looks at their    *)
(* trimmed length against the threshold, process_document at whether the   *)
(* extracted text is blank.                                                *)
(***************************************************************************)

MaxPages == 2      \* most pages, paragraphs or rows of a file

supported_types ==
    {"application/pdf",
     "application/vnd.openxmlformats-officedocument.wordprocessingml.document",
     "application/vnd.openxmlformats-officedocument.spreadsheetml.sheet",
     "image/png", "image/jpeg", "image/jpg"}

\* dict.get(k, default)
Get(d, k, default) == IF k \in DOMAIN d THEN d[k] ELSE default

\* {}
EmptyDict == [q \in {} |-> <<>>]

Letters(n) == [i \in 1 .. n |-> "a"]

\* A page without text, a page of 29 letters between a blank and a line
\* feed, a page of 31 letters.
PageTexts == {<<>>, <<" ">> \o Letters(29) \o <<"LF">>, Letters(31)}

PageLists == UNION {[1 .. n -> PageTexts] : n \in 0 .. MaxPages}

\* The library raises at a part of the file.
Raising(p) ==
    {[pages |-> p, raise_at |-> k, ocr_available |-> FALSE, ocr_ok |-> {},
      ocr_raises |-> FALSE] : k \in 1 .. (IF p = <<>> THEN 1 ELSE Len(p))}

\* The library reads the whole file; there is no OCR processor, or it
\* cannot open the file, or it transcribes some of the pages in `scanned`.
Returning(p, scanned) ==
    {[pages |-> p, raise_at |-> 0, ocr_available |-> FALSE, ocr_ok |-> {},
      ocr_raises |-> FALSE],
     [pages |-> p, raise_at |-> 0, ocr_available |-> TRUE, ocr_ok |-> {},
      ocr_raises |-> TRUE]}
    \cup
    {[pages |-> p, raise_at |-> 0, ocr_available |-> TRUE, ocr_ok |-> s,
      ocr_raises |-> FALSE] : s \in SUBSET scanned}

\* The extractions followed for a file of a type.
Extractions(file_type) ==
    CASE file_type = "application/pdf" ->
            UNION {Raising(p) \cup Returning(p, 1 .. Len(p)) : p \in PageLists}
      [] file_type \in {"image/png", "image/jpeg", "image/jpg"} ->
            Raising(<<>>) \cup Returning(<<>>, {1})
      [] OTHER ->
            UNION {Raising(p) \cup {x \in Returning(p, {}) : ~x.ocr_available} :
                       p \in PageLists}

\* str(e) of the exception the library raises.
ExcMessage(x) == "cannot read part " \o ToString(x.raise_at)

\* A processor that lets the exception through hands back this.
Raise(msg) == [exception |-> msg]

\* sep.join(parts)
RECURSIVE Join(_, _)
Join(parts, sep) ==
    IF parts = <<>> THEN <<>>
    ELSE IF Len(parts) = 1 THEN parts[1]
    ELSE parts[1] \o sep \o Join(Tail(parts), sep)

\* "\n\n"
LFLF == <<"LF", "LF">>

\* The text the vision model returns for page p, ocr_processor.py line 85.
OcrText(p) == <<"o", "c", "r", ToString(p)>>

\* f"[Page {page_num + 1}]\n", ocr_processor.py line 185
PageMarker(p) == <<"[", "P", "a", "g", "e", " ", ToString(p), "]", "LF">>

\* OCRProcessor.process_image, ocr_processor.py lines 36-100, for the image
\* of page p.
ocr_process_image(x, p) ==
    IF p \in x.ocr_ok
    THEN [text |-> OcrText(p), status |-> "success", method |-> "gpt4_vision"]
    ELSE [text |-> <<>>, status |-> "error", error |-> "vision request failed",
          method |-> "gpt4_vision"]

\* OCRProcessor.process_pdf_page_as_image, lines 102-154 (page_num 0-based)
process_pdf_page_as_image(x, page_num) ==
    IF page_num >= Len(x.pages)
    THEN [text |-> <<>>, status |-> "error",
          error |-> "Page " \o ToString(page_num) \o " does not exist"]
    ELSE ocr_process_image(x, page_num + 1)

\* OCRProcessor.process_scanned_pdf, lines 156-203
process_scanned_pdf(x, max_pages) ==
    IF x.ocr_raises
    THEN [text |-> <<>>, pages |-> <<>>, status |-> "error",
          error |-> "cannot open file"]
    ELSE LET num_pages == Min({Len(x.pages), max_pages})
             Transcribed(p) == process_pdf_page_as_image(x, p - 1)["status"] = "success"
             done == SelectSeq([p \in 1 .. num_pages |-> p], Transcribed)
             TextOf(p) == process_pdf_page_as_image(x, p - 1)["text"]
         IN  [text |-> Join([k \in 1 .. Len(done) |->
                                 PageMarker(done[k]) \o TextOf(done[k])], LFLF),
              pages |-> [k \in 1 .. Len(done) |->
                            [page_number |-> done[k],
                             text |-> TextOf(done[k]),
                             char_count |-> Len(TextOf(done[k]))]],
              status |-> "success",
              method |-> "gpt4_vision_ocr",
              num_pages |-> num_pages]

\* total_text_length of lines 69-73 over the pages read
RECURSIVE StrippedLength(_)
StrippedLength(pages) ==
    IF pages = <<>> THEN 0
    ELSE Len(Strip(Head(pages))) + StrippedLength(Tail(pages))

\* A threshold one character higher.
scanned_thresholdHigher == 30 + 1

\* Line 85: the average of trimmed characters per page below which a PDF is
\* taken for a scan.
scanned_threshold == 30

\* Line 88: the most pages handed to the OCR processor.
ocr_page_cap == 20

\* process_pdf, lines 58-113.  An exception inside the try block is printed
\* and the pages read before it are returned.
process_pdf(x) ==
    LET num_pages == Len(x.pages)
        read == IF x.raise_at = 0 THEN x.pages
                ELSE SubSeq(x.pages, 1, x.raise_at - 1)
        total_text_length == StrippedLength(read)
        below == IF num_pages > 0
                 THEN total_text_length < scanned_threshold * num_pages
                 ELSE 0 < scanned_threshold
        ocr_result == process_scanned_pdf(x, Min({num_pages, ocr_page_cap}))
        direct == [text |-> Join(read, LFLF),
                   pages |-> [k \in 1 .. Len(read) |->
                                 [page_number |-> k, text |-> read[k],
                                  char_count |-> Len(read[k])]],
                   metadata |-> [num_pages |-> Len(read), type |-> "pdf",
                                 method |-> "text_extraction"]]
    IN  IF x.raise_at = 0 /\ x.ocr_available /\ below
           /\ ocr_result["status"] = "success"
        THEN [text |-> ocr_result["text"],
              pages |-> ocr_result["pages"],
              metadata |-> [num_pages |-> num_pages, type |-> "pdf",
                            method |-> "ocr",
                            ocr_pages |-> Len(ocr_result["pages"])]]
        ELSE direct

\* process_docx, lines 115-148: the paragraphs that are not blank.  Tables
\* do not reach the text and are left out.
process_docx(x) ==
    IF x.raise_at # 0 THEN Raise(ExcMessage(x))
    ELSE LET NotBlank(p) == Strip(p) # <<>>
             full_text == SelectSeq(x.pages, NotBlank)
         IN  [text |-> Join(full_text, LFLF),
              pages |-> [k \in 1 .. Len(full_text) |-> [text |-> full_text[k]]],
              metadata |-> [num_paragraphs |-> Len(full_text), type |-> "docx"]]

\* process_xlsx, lines 150-186, for a workbook of one sheet: the rows whose
\* text is not empty.
process_xlsx(x) ==
    IF x.raise_at # 0 THEN Raise(ExcMessage(x))
    ELSE LET NotEmpty(row_text) == row_text # <<>>
             sheet_text == SelectSeq(x.pages, NotEmpty)
         IN  [text |-> Join(sheet_text, LFLF),
              pages |-> <<[sheet_name |-> "Sheet1",
                           text |-> Join(sheet_text, <<"LF">>)]>>,
              metadata |-> [num_sheets |-> 1, type |-> "xlsx"]]

\* '[Image file - OCR not available]', line 220
ImagePlaceholder ==
    <<"[", "I", "m", "a", "g", "e", " ", "f", "i", "l", "e", " ", "-", " ",
      "O", "C", "R", " ", "n", "o", "t", " ", "a", "v", "a", "i", "l", "a",
      "b", "l", "e", "]">>

\* process_image whose fallback returns no text.
process_imageNoPlaceholder(x) ==
    IF x.raise_at # 0
    THEN [text |-> <<>>, pages |-> <<>>, metadata |-> EmptyDict,
          error |-> ExcMessage(x)]
    ELSE IF x.ocr_available /\ ocr_process_image(x, 1)["status"] = "success"
    THEN [text |-> ocr_process_image(x, 1)["text"],
          pages |-> <<[type |-> "image",
                       ocr_text |-> ocr_process_image(x, 1)["text"]]>>,
          metadata |-> [type |-> "image", method |-> "gpt4_vision_ocr"]]
    ELSE [text |-> <<>>,
          pages |-> <<[type |-> "image"]>>,
          metadata |-> [type |-> "image"]]

\* process_image, lines 188-240.  An exception is caught here and handed
\* back under the key error of a dict that has no status.
process_image(x) ==
    IF x.raise_at # 0
    THEN [text |-> <<>>, pages |-> <<>>, metadata |-> EmptyDict,
          error |-> ExcMessage(x)]
    ELSE IF x.ocr_available /\ ocr_process_image(x, 1)["status"] = "success"
    THEN [text |-> ocr_process_image(x, 1)["text"],
          pages |-> <<[type |-> "image",
                       ocr_text |-> ocr_process_image(x, 1)["text"]]>>,
          metadata |-> [type |-> "image", method |-> "gpt4_vision_ocr"]]
    ELSE [text |-> ImagePlaceholder,
          pages |-> <<[type |-> "image"]>>,
          metadata |-> [type |-> "image"]]

\* A lookup that hands an unknown type to the image extractor.
ProcessorOfDefault(file_type) ==
    CASE file_type = "application/pdf" -> <<"process_pdf">>
      [] file_type = "application/vnd.openxmlformats-officedocument.wordprocessingml.document"
            -> <<"process_docx">>
      [] file_type = "application/vnd.openxmlformats-officedocument.spreadsheetml.sheet"
            -> <<"process_xlsx">>
      [] OTHER -> <<"process_image">>

\* self.supported_types.get(file_type), lines 18-25 and 35: the extractor
\* of a type, None for a type that has none.
ProcessorOf(file_type) ==
    CASE file_type \notin supported_types -> <<>>
      [] file_type = "application/pdf" -> <<"process_pdf">>
      [] file_type = "application/vnd.openxmlformats-officedocument.wordprocessingml.document"
            -> <<"process_docx">>
      [] file_type = "application/vnd.openxmlformats-officedocument.spreadsheetml.sheet"
            -> <<"process_xlsx">>
      [] OTHER -> <<"process_image">>

\* processor(file_path), line 45
RunProcessor(processor, x) ==
    CASE processor = "process_pdf" -> process_pdf(x)
      [] processor = "process_docx" -> process_docx(x)
      [] processor = "process_xlsx" -> process_xlsx(x)
      [] OTHER -> process_image(x)

\* process_file, lines 45-56, from what processor(file_path) did: its result
\* with status success, or the dict of the except branch when it raised.
process_file_return(r) ==
    IF "exception" \in DOMAIN r
    THEN [text |-> <<>>, pages |-> <<>>, metadata |-> EmptyDict,
          status |-> "error", error |-> r["exception"]]
    ELSE SetKey(r, "status", "success")

\* process_file, lines 27-56
process_file(file_type, x) ==
    IF ProcessorOf(file_type) = <<>>
    THEN [text |-> <<>>, pages |-> <<>>, metadata |-> EmptyDict,
          status |-> "unsupported_type",
          error |-> "Unsupported file type: " \o file_type]
    ELSE process_file_return(RunProcessor(ProcessorOf(file_type)[1], x))

(***************************************************************************)
(* process_document (app.py lines 80-137).  What the collaborators do in   *)
(* one run is an outcome:                                                  *)
(*   extract      the extraction inside process_file;                      *)
(*   chunk_raises chunk_text raised (its loop can run until memory is      *)
(*                exhausted);                                              *)
(*   n            the number of chunks chunk_text cuts a text that is not  *)
(*                blank into;                                              *)
(*   emb_ok       the chunk positions whose embedding succeeded;           *)
(*   add_raises   collection.add raised.                                   *)
(***************************************************************************)

\* The chunk counts followed: one chunk, the most.
ChunkCounts == {1, MaxChunks}

\* The embedding results followed for n chunks: all fail, all succeed, only
\* the first fails.
EmbeddingResults(n) == {{}, 1 .. n, 2 .. n}

\* A file that cannot be opened.
Unreadable ==
    [pages |-> <<>>, raise_at |-> 1, ocr_available |-> FALSE, ocr_ok |-> {},
     ocr_raises |-> FALSE]

\* A file of one page of text, and no OCR processor.
Readable ==
    [pages |-> <<Letters(31)>>, raise_at |-> 0, ocr_available |-> FALSE,
     ocr_ok |-> {}, ocr_raises |-> FALSE]

\* What follows the extraction x of a text that is not blank.
AfterExtraction(x) ==
    {[extract |-> x, chunk_raises |-> TRUE, n |-> 1, emb_ok |-> {}, add_raises |-> FALSE],
     [extract |-> x, chunk_raises |-> FALSE, n |-> MaxChunks, emb_ok |-> 1 .. MaxChunks, add_raises |-> TRUE]}
    \cup
    UNION {{[extract |-> x, chunk_raises |-> FALSE, n |-> n, emb_ok |-> s, add_raises |-> FALSE] :
                s \in EmbeddingResults(n)} : n \in ChunkCounts}

\* The run of extraction x in which nothing is chunked.
NothingAfter(x) ==
    [extract |-> x, chunk_raises |-> FALSE, n |-> 1, emb_ok |-> {}, add_raises |-> FALSE]

\* The outcomes followed in the session.
Outcomes == {NothingAfter(Unreadable)} \cup AfterExtraction(Readable)

\* The outcome given to a position Process All does not run.
NoRun == NothingAfter(Unreadable)

\* No character of t is outside the whitespace: t.strip() is empty.
Blank(t) == \A i \in 1 .. Len(t) : t[i] \in Whitespace

\* The chunks of an extracted text, by position.
ChunkList(n) == [i \in 1 .. n |-> "chunk " \o ToString(i - 1)]

\* The except branch without its status update.
StatusOnExceptionStuck == "processing"

\* Line 135: the status set by the except branch.
StatusOnException == "error"

\* Lines 92-137 from the result res of process_file and the chunks of
\* chunk_text: the document dict afterwards, the collection afterwards, the
\* value returned and the arguments of the add_documents call of lines
\* 119-123, if it is made.
process_document_from(doc_info, coll, o, res, chunk_list) ==
    LET metadatas == [i \in 1 .. Len(chunk_list) |-> ChunkMetadata(doc_info, i - 1)]
        ids == [i \in 1 .. Len(chunk_list) |-> ChunkId(doc_info["hash"], i - 1)]
        added == add_documents(coll, chunk_list, metadatas, ids, o.emb_ok, o.add_raises)
        request == <<[chunks |-> chunk_list, metadatas |-> metadatas, ids |-> ids]>>
        Failed(st, msg, req) ==
            [doc |-> SetKey(SetKey(doc_info, "status", st), "error", msg),
             coll |-> coll, ret |-> FALSE, request |-> req]
    IN  IF res["status"] # "success"
        THEN Failed("failed_parsing", Get(res, "error", "Unknown error"), <<>>)
        ELSE IF o.chunk_raises /\ res["text"] # <<>>
        THEN Failed(StatusOnException, "chunk_text raised", <<>>)
        ELSE IF chunk_list = <<>>
        THEN Failed("failed_parsing", "No text extracted", <<>>)
        ELSE IF added.ok
        THEN [doc |-> SetKey(SetKey(doc_info, "status", "indexed"),
                             "num_chunks", Len(chunk_list)),
              coll |-> added.coll, ret |-> TRUE, request |-> request]
        ELSE Failed("failed_indexing", "Failed to add to vector store", request)

\* Line 98: chunk_text on the text of the result of process_file; it
\* returns no chunk for a blank text (document_processor.py lines 254,
\* 273-275).
process_document_chunks(doc_info, coll, o, res) ==
    process_document_from(doc_info, coll, o, res,
                          IF Blank(res["text"]) THEN <<>> ELSE ChunkList(o.n))

\* process_document, lines 80-137.
process_document(doc_info, coll, o) ==
    process_document_chunks(doc_info, coll, o,
                            process_file(doc_info["type"], o.extract))

\* Line 213
Reprocessable == {"uploaded", "failed_parsing", "failed_indexing"}

\* A loop that ends at the first document process_document fails on.
RECURSIVE ProcessAllFromBreak(_, _, _, _)
ProcessAllFromBreak(i, docs, coll, outs) ==
    IF i > Len(docs) THEN [docs |-> docs, coll |-> coll, calls |-> <<>>]
    ELSE IF docs[i]["status"] \in {"uploaded", "failed_parsing", "failed_indexing"}
    THEN LET r == process_document(docs[i], coll, outs[i])
             rest == IF r.ret
                     THEN ProcessAllFromBreak(i + 1, [docs EXCEPT ![i] = r.doc], r.coll, outs)
                     ELSE [docs |-> [docs EXCEPT ![i] = r.doc], coll |-> r.coll, calls |-> <<>>]
         IN  [rest EXCEPT !.calls = <<i>> \o @]
    ELSE ProcessAllFromBreak(i + 1, docs, coll, outs)

\* The Process All loop, lines 212-216, from position i on; outs[i] is the
\* outcome of the run on document i, if there is one.  calls lists the
\* positions process_document is called on, in the order of the calls.
RECURSIVE ProcessAllFrom(_, _, _, _)
ProcessAllFrom(i, docs, coll, outs) ==
    IF i > Len(docs) THEN [docs |-> docs, coll |-> coll, calls |-> <<>>]
    ELSE IF docs[i]["status"] \in Reprocessable
    THEN LET r == process_document(docs[i], coll, outs[i])
             rest == ProcessAllFrom(i + 1, [docs EXCEPT ![i] = r.doc], r.coll, outs)
         IN  [rest EXCEPT !.calls = <<i>> \o @]
    ELSE ProcessAllFrom(i + 1, docs, coll, outs)

\* The outcomes of one Process All click: one per document it runs.
ProcessAllOutcomes(docs) ==
    {outs \in [1 .. Len(docs) -> Outcomes] :
        \A i \in 1 .. Len(docs) : docs[i]["status"] \notin Reprocessable => outs[i] = NoRun}

\* list.pop(idx)
Pop(seq, i) == SubSeq(seq, 1, i - 1) \o SubSeq(seq, i + 1, Len(seq))

\* os.remove(path) if os.path.exists(path)
RemoveFile(dir, path) == [q \in DOMAIN dir \ {path} |-> dir[q]]

NoFiles == [q \in {} |-> <<>>]
\* The script run called save_uploaded_file for no file.
NoSave == [doc_info |-> <<>>, error |-> <<>>]

(***************************************************************************)
(* The handlers.                                                           *)
(***************************************************************************)

\* NameTracked that finds no name in the list.
NameTrackedNever(docs, name) == name \in {}

\* Line 153: the name is that of a tracked document.
NameTracked(docs, name) ==
    name \in {docs[i]["name"] : i \in 1 .. Len(docs)}

\* Lines 152-160: the body of the upload loop for one file of the uploader.
Upload(uploaded_file) ==
    /\ cpc = "idle"
    /\ IF ~NameTracked(documents, uploaded_file.name)
       THEN LET r == save_uploaded_file(documents, data_dir, uploaded_file, now)
            IN  /\ r.doc_info # <<>> => now < MaxUploads
                /\ documents' = IF r.doc_info # <<>>
                                THEN Append(documents, r.doc_info[1])
                                ELSE documents
                /\ data_dir' = r.dir
                /\ last_save' = [doc_info |-> r.doc_info, error |-> r.error]
                /\ now' = IF r.doc_info # <<>> THEN now + 1 ELSE now
       ELSE /\ last_save' = NoSave
            /\ UNCHANGED <<documents, data_dir, now>>
    /\ processed' = <<>>
    /\ UNCHANGED <<collection, messages>>
    /\ UNCHANGED <<chunk_vars, call_vars>>

\* Lines 189-194: the Process button of document idx.
Process(idx, o) ==
    /\ cpc = "idle"
    /\ idx \in 1 .. Len(documents)
    /\ \E r \in {process_document(documents[idx], collection, o)} :
           /\ documents' = [documents EXCEPT ![idx] = r.doc]
           /\ collection' = r.coll
    /\ last_save' = NoSave
    /\ processed' = <<>>
    /\ UNCHANGED <<data_dir, now, messages>>
    /\ UNCHANGED <<chunk_vars, call_vars>>

\* Lines 196-203: the Delete button of document idx.
Delete(idx) ==
    /\ cpc = "idle"
    /\ idx \in 1 .. Len(documents)
    /\ collection' = delete_document(collection, documents[idx]["name"])
    /\ data_dir' = RemoveFile(data_dir, documents[idx]["path"])
    /\ documents' = Pop(documents, idx)
    /\ last_save' = NoSave
    /\ processed' = <<>>
    /\ UNCHANGED <<now, messages>>
    /\ UNCHANGED <<chunk_vars, call_vars>>

\* Lines 209-220: the Process All button.
ProcessAll(outs) ==
    /\ cpc = "idle"
    /\ documents # <<>>
    /\ \E r \in {ProcessAllFrom(1, documents, collection, outs)} :
           /\ documents' = r.docs
           /\ collection' = r.coll
           /\ processed' = <<r.calls>>
    /\ last_save' = NoSave
    /\ UNCHANGED <<data_dir, now, messages>>
    /\ UNCHANGED <<chunk_vars, call_vars>>

AppIdle ==
    /\ documents = <<>>
    /\ data_dir = NoFiles
    /\ collection = {}
    /\ now = 0
    /\ last_save = NoSave
    /\ processed = <<>>
    /\ messages = <<>>

ChunkIdle ==
    /\ text = <<>>
    /\ start = 0
    /\ chunks = <<>>
    /\ windows = <<>>

\* No call is followed on its own.
CallIdle ==
    /\ outcome = <<>>
    /\ result = EmptyDict
    /\ returned = <<>>
    /\ calls = <<>>
    /\ rpc = "idle"

\* The session after the script's first run, lines 19-43.
Init == AppIdle /\ ChunkIdle /\ CallIdle /\ cpc = "idle"

Next ==
    \/ \E f \in UploadedFiles : Upload(f)
    \/ \E idx \in 1 .. Len(documents), o \in Outcomes : Process(idx, o)
    \/ \E idx \in 1 .. Len(documents) : Delete(idx)
    \/ \E outs \in ProcessAllOutcomes(documents) : ProcessAll(outs)

Spec == Init /\ [][Next]_vars

\* A call chunk_text(text) with the default chunk_size and overlap.
ChunkInit ==
    /\ text \in Texts
    /\ start = 0
    /\ chunks = <<>>
    /\ windows = <<>>
    /\ cpc = "call"
    /\ AppIdle
    /\ CallIdle

ChunkSpec == ChunkInit /\ [][ChunkNext]_vars

(***************************************************************************)
(* One process_document call followed on its own: on the only document of  *)
(* a session, just uploaded, with an empty collection.                     *)
(***************************************************************************)

\* The files the call is followed for, one of each kind.
IngestFiles ==
    {[name |-> n, bytes |-> <<1>>, type |-> TypeOf(n)] :
        n \in {"a.pdf", "d.docx", "e.xlsx", "b.png", "f.jpg", "c.txt"}}

\* The outcomes followed for a file of a type: every extraction, and after
\* one that gives a text to chunk, what chunking, embedding and storing do.
IngestOutcomes(file_type) ==
    UNION {LET res == process_file(file_type, x)
           IN  IF res["status"] = "success" /\ ~Blank(res["text"])
               THEN AfterExtraction(x)
               ELSE {NothingAfter(x)} : x \in Extractions(file_type)}

IngestInit ==
    /\ \E f \in IngestFiles :
          LET saved == save_uploaded_file(<<>>, NoFiles, f, 0)
          IN  /\ documents = <<saved.doc_info[1]>>
              /\ data_dir = saved.dir
              /\ outcome \in IngestOutcomes(f.type)
    /\ collection = {}
    /\ now = 1
    /\ last_save = NoSave
    /\ processed = <<>>
    /\ messages = <<>>
    /\ result = EmptyDict
    /\ returned = <<>>
    /\ calls = <<>>
    /\ rpc = "call"
    /\ ChunkIdle
    /\ cpc = "idle"

\* app.py lines 82-90: the status becomes processing and process_file is
\* called.
ProcessDocumentExtract ==
    /\ rpc = "call"
    /\ documents' = <<SetKey(documents[1], "status", "processing")>>
    /\ result' = process_file(documents[1]["type"], outcome.extract)
    /\ rpc' = "extracted"
    /\ UNCHANGED <<data_dir, collection, now, last_save, processed, messages>>
    /\ UNCHANGED <<outcome, returned, calls>>
    /\ UNCHANGED chunk_vars

\* app.py lines 92-137: the rest of process_document.
ProcessDocumentIndex ==
    /\ rpc = "extracted"
    /\ \E r \in {process_document(documents[1], collection, outcome)} :
           /\ documents' = <<r.doc>>
           /\ collection' = r.coll
           /\ returned' = <<r.ret>>
           /\ calls' = r.request
    /\ rpc' = "done"
    /\ UNCHANGED <<data_dir, now, last_save, processed, messages>>
    /\ UNCHANGED <<outcome, result>>
    /\ UNCHANGED chunk_vars

IngestNext == ProcessDocumentExtract \/ ProcessDocumentIndex

IngestSpec == IngestInit /\ [][IngestNext]_vars

(***************************************************************************)
(* One process_document call followed through chunk_text: the text         *)
(* process_file returned is chunked by the loop of chunk_text itself, and  *)
(* the chunks it returns are the ones indexed.  Run on a str the loop does  *)
(* not raise.                                                              *)
(***************************************************************************)

PipelineInit == IngestInit /\ ~outcome.chunk_raises

\* app.py lines 92-95: process_file did not succeed and process_document
\* returns before chunk_text.
ProcessDocumentNoChunks ==
    /\ rpc = "extracted"
    /\ result["status"] # "success"
    /\ \E r \in {process_document_from(documents[1], collection, outcome, result, <<>>)} :
           /\ documents' = <<r.doc>>
           /\ collection' = r.coll
           /\ returned' = <<r.ret>>
    /\ rpc' = "done"
    /\ UNCHANGED <<data_dir, now, last_save, processed, messages>>
    /\ UNCHANGED <<outcome, result, calls>>
    /\ UNCHANGED chunk_vars

\* app.py line 98: chunk_text is called on the text of the result.
ProcessDocumentChunkText ==
    /\ rpc = "extracted"
    /\ result["status"] = "success"
    /\ text' = result["text"]
    /\ start' = 0
    /\ chunks' = <<>>
    /\ windows' = <<>>
    /\ cpc' = "call"
    /\ rpc' = "chunking"
    /\ UNCHANGED app_vars
    /\ UNCHANGED <<outcome, result, returned, calls>>

\* app.py lines 100-132 on the chunks chunk_text returned.
ProcessDocumentStore ==
    /\ rpc = "chunking"
    /\ cpc = "done"
    /\ \E r \in {process_document_from(documents[1], collection, outcome, result, chunks)} :
           /\ documents' = <<r.doc>>
           /\ collection' = r.coll
           /\ returned' = <<r.ret>>
           /\ calls' = r.request
    /\ rpc' = "done"
    /\ UNCHANGED <<data_dir, now, last_save, processed, messages>>
    /\ UNCHANGED <<outcome, result>>
    /\ UNCHANGED chunk_vars

PipelineNext ==
    \/ ProcessDocumentExtract
    \/ ProcessDocumentNoChunks
    \/ ProcessDocumentChunkText
    \/ ChunkNext
    \/ ProcessDocumentStore

PipelineSpec == PipelineInit /\ [][PipelineNext]_vars

(***************************************************************************)
(* One add_documents call followed on its own: the lists process_document  *)
(* builds for the first n chunks of a document, on a collection that is    *)
(* empty or holds the first chunk from an earlier run.                     *)
(***************************************************************************)

StoreDoc ==
    save_uploaded_file(<<>>, NoFiles,
                       [name |-> "a.pdf", bytes |-> <<1>>, type |-> TypeOf("a.pdf")],
                       0).doc_info[1]

\* The entry process_document has stored for chunk idx of a document.
StoredEntry(doc_info, idx) ==
    [id |-> ChunkId(doc_info["hash"], idx),
     document |-> ChunkList(idx + 1)[idx + 1],
     metadata |-> ChunkMetadata(doc_info, idx)]

StoreInputs ==
    UNION {{[n |-> n, emb_ok |-> s, add_raises |-> a, before |-> b] :
                s \in SUBSET (1 .. n), a \in BOOLEAN,
                b \in {{}, {StoredEntry(StoreDoc, 0)}}} : n \in 0 .. MaxChunks}

StoreInit ==
    /\ outcome \in StoreInputs
    /\ collection = outcome.before
    /\ documents = <<>>
    /\ data_dir = NoFiles
    /\ now = 0
    /\ last_save = NoSave
    /\ processed = <<>>
    /\ messages = <<>>
    /\ result = EmptyDict
    /\ returned = <<>>
    /\ calls = <<>>
    /\ rpc = "call"
    /\ ChunkIdle
    /\ cpc = "idle"

\* vector_store.py lines 59-102
AddDocuments ==
    /\ rpc = "call"
    /\ LET n == outcome.n
           r == add_documents(collection, ChunkList(n),
                              [i \in 1 .. n |-> ChunkMetadata(StoreDoc, i - 1)],
                              [i \in 1 .. n |-> ChunkId(StoreDoc["hash"], i - 1)],
                              outcome.emb_ok, outcome.add_raises)
       IN  /\ collection' = r.coll
           /\ returned' = <<r.ok>>
    /\ rpc' = "done"
    /\ UNCHANGED <<documents, data_dir, now, last_save, processed, messages>>
    /\ UNCHANGED <<outcome, result, calls>>
    /\ UNCHANGED chunk_vars

StoreSpec == StoreInit /\ [][AddDocuments]_vars

(***************************************************************************)
(* One RAGEngine.query call followed on its own (rag_engine.py lines       *)
(* 113-171, vector_store.py lines 104-149).  What the collaborators do is  *)
(* an outcome:                                                             *)
(*   question      the question, lower-cased, as a list of words;          *)
(*   embedding_ok  the embedding request for the question succeeded;       *)
(*   query_raises  collection.query raised;                                *)
(*   hits          the entries collection.query ranks nearest, nearest     *)
(*                 first;                                                  *)
(*   llm_raises    the chat completion request raised.                     *)
(***************************************************************************)

MaxStored == 3     \* most entries in the collection that is queried

\* n_results of query and search, rag_engine.py line 115
n_results == 5

\* rag_engine.py line 147, the English keywords
viz_keywords == {"table", "chart", "graph", "compare", "comparison"}

Questions == {<<"what", "is", "a">>, <<"compare", "a", "and", "b">>}

\* Entries of two documents, the second uploaded after the first, and an
\* entry some other writer left in the persistent collection.
SampleEntries ==
    LET a == StoreDoc
        b == save_uploaded_file(<<a>>, NoFiles,
                                [name |-> "b.png", bytes |-> <<2, 2>>,
                                 type |-> TypeOf("b.png")], 1).doc_info[1]
    IN  {StoredEntry(a, 0), StoredEntry(a, 1), StoredEntry(a, 3),
         StoredEntry(b, 0),
         [id |-> "import_0", document |-> "imported text",
          metadata |-> [origin |-> "import"]]}

QueryCollections == {c \in SUBSET SampleEntries : Cardinality(c) <= MaxStored}

\* The rankings collection.query can give: min(n_results, count) distinct
\* entries.
Hits(coll) ==
    {h \in [1 .. Min({n_results, Cardinality(coll)}) -> coll] :
        \A i, j \in DOMAIN h : i # j => h[i] # h[j]}

QueryOutcomes(coll) ==
    [question : Questions, embedding_ok : BOOLEAN, query_raises : BOOLEAN,
     hits : Hits(coll), llm_raises : BOOLEAN]

\* get_embedding, vector_store.py lines 39-57: the vector, [] on an exception
get_embedding(o) == IF o.embedding_ok THEN <<1, 0>> ELSE <<>>

\* The dict search returns when it has nothing.
NoHits == [documents |-> <<>>, metadatas |-> <<>>, distances |-> <<>>]

\* search without the test of the embedding: collection.query raises on the
\* empty vector.
searchUnguarded(o) ==
    IF o.query_raises \/ get_embedding(o) = <<>>
    THEN [value |-> NoHits, calls |-> <<"embeddings.create", "collection.query">>]
    ELSE [value |-> [documents |-> [k \in DOMAIN o.hits |-> o.hits[k].document],
                     metadatas |-> [k \in DOMAIN o.hits |-> o.hits[k].metadata],
                     distances |-> [k \in DOMAIN o.hits |-> k]],
          calls |-> <<"embeddings.create", "collection.query">>]

\* search, vector_store.py lines 104-149: the dict returned and the requests
\* made.  The distance of a hit is given by its rank.
search(o) ==
    IF get_embedding(o) = <<>>
    THEN [value |-> NoHits, calls |-> <<"embeddings.create">>]
    ELSE IF o.query_raises
    THEN [value |-> NoHits, calls |-> <<"embeddings.create", "collection.query">>]
    ELSE [value |-> [documents |-> [k \in DOMAIN o.hits |-> o.hits[k].document],
                     metadatas |-> [k \in DOMAIN o.hits |-> o.hits[k].metadata],
                     distances |-> [k \in DOMAIN o.hits |-> k]],
          calls |-> <<"embeddings.create", "collection.query">>]

\* str(page) inside the f-string of line 198
FormatPage(meta) ==
    IF "page" \in DOMAIN meta THEN ToString(meta["page"]) ELSE "Unknown"

\* rag_engine.py lines 196-198
FormatSource(meta) ==
    Get(meta, "document_name", "Unknown") \o " - Page " \o FormatPage(meta)

\* _extract_sources without the set of sources seen.
extract_sourcesKeepAll(metadata) ==
    [k \in DOMAIN metadata |-> FormatSource(metadata[k])]

\* _extract_sources, rag_engine.py lines 190-204
RECURSIVE extract_sources(_)
extract_sources(metadata) ==
    IF metadata = <<>> THEN <<>>
    ELSE LET front == SubSeq(metadata, 1, Len(metadata) - 1)
             sources == extract_sources(front)
             source == FormatSource(metadata[Len(metadata)])
             seen == {sources[k] : k \in DOMAIN sources}
         IN  IF source \notin seen THEN Append(sources, source) ELSE sources

\* The second, English, paragraph of the answer of lines 141.
NoRelevantAnswer == "No relevant documents found to answer this question."

\* generate_response whose except branch still cites the sources.
generate_responseCiting(o, metadata) ==
    [value |-> [answer |-> IF o.llm_raises
                           THEN "Error generating response: request failed"
                           ELSE "generated answer",
                sources |-> extract_sources(metadata),
                model_used |-> "gpt-4o-mini", success |-> ~o.llm_raises],
     calls |-> <<"chat.completions.create">>]

\* generate_response, rag_engine.py lines 44-111: the dict returned and the
\* requests made.  The answer of the model stands for any text.
generate_response(o, metadata) ==
    IF o.llm_raises
    THEN [value |-> [answer |-> "Error generating response: request failed",
                     sources |-> <<>>, model_used |-> "gpt-4o-mini",
                     success |-> FALSE, error |-> "request failed"],
          calls |-> <<"chat.completions.create">>]
    ELSE [value |-> [answer |-> "generated answer",
                     sources |-> extract_sources(metadata),
                     model_used |-> "gpt-4o-mini", success |-> TRUE],
          calls |-> <<"chat.completions.create">>]

\* query, rag_engine.py lines 113-171, from the result of search on
query(o, found) ==
    IF found.value["documents"] = <<>>
    THEN [value |-> [answer |-> NoRelevantAnswer, sources |-> <<>>,
                     success |-> FALSE],
          calls |-> found.calls]
    ELSE LET needs_visualization ==
                 \E k \in DOMAIN o.question : o.question[k] \in viz_keywords
             g == generate_response(o, found.value["metadatas"])
         IN  [value |-> SetKey(SetKey(SetKey(g.value,
                            "needs_visualization", needs_visualization),
                            "documents", found.value["documents"]),
                            "metadatas", found.value["metadatas"]),
              calls |-> found.calls \o g.calls]

QueryInit ==
    /\ collection \in QueryCollections
    /\ outcome \in QueryOutcomes(collection)
    /\ documents = <<>>
    /\ data_dir = NoFiles
    /\ now = 0
    /\ last_save = NoSave
    /\ processed = <<>>
    /\ messages = <<>>
    /\ result = EmptyDict
    /\ returned = <<>>
    /\ calls = <<>>
    /\ rpc = "call"
    /\ ChunkIdle
    /\ cpc = "idle"

\* rag_engine.py lines 130-136: the call of search.
QuerySearch ==
    /\ rpc = "call"
    /\ result' = search(outcome).value
    /\ calls' = search(outcome).calls
    /\ rpc' = "searched"
    /\ UNCHANGED <<outcome, returned>>
    /\ UNCHANGED app_vars
    /\ UNCHANGED chunk_vars

\* rag_engine.py lines 138-163: the rest of query.
QueryAnswer ==
    /\ rpc = "searched"
    /\ LET q == query(outcome, [value |-> result, calls |-> calls])
       IN  /\ returned' = <<q.value>>
           /\ calls' = q.calls
    /\ rpc' = "done"
    /\ UNCHANGED <<outcome, result>>
    /\ UNCHANGED app_vars
    /\ UNCHANGED chunk_vars

QueryNext == QuerySearch \/ QueryAnswer

QuerySpec == QueryInit /\ [][QueryNext]_vars

(***************************************************************************)
(* The chat input handler of app.py, lines 252-325, followed over the      *)
(* questions put in a session whose documents stay as they are: no         *)
(* document, one that was uploaded, one that process_document ran on, and  *)
(* the same with a second document that was only uploaded.  A run of the   *)
(* handler is one step; calls holds the requests of that run and returned  *)
(* the dict query handed back.                                             *)
(*                                                                         *)
(* The reply of the visualizer's model, once parsed by json.loads, is <<>> *)
(* when the request raised or the text was no JSON object, else <<d>> for  *)
(* the dict d; the value of its data key is <<>> for null and <<rows>> for *)
(* a list of rows.                                                         *)
(***************************************************************************)

MaxMessages == 4   \* most messages in the chat history

\* The upload of a.pdf that gave StoreDoc, and the upload of a second file
\* after it.
FirstSave ==
    save_uploaded_file(<<>>, NoFiles,
                       [name |-> "a.pdf", bytes |-> <<1>>, type |-> TypeOf("a.pdf")],
                       0)
SecondSave ==
    save_uploaded_file(<<StoreDoc>>, FirstSave.dir,
                       [name |-> "b.png", bytes |-> <<2, 2>>,
                        type |-> TypeOf("b.png")], 1)

\* process_document run on StoreDoc, for a text of one chunk.
ChatProcessed ==
    {process_document(StoreDoc, {}, o) : o \in {x \in Outcomes : x.n = 1}}

ChatSessions ==
    {[documents |-> <<>>, collection |-> {}, dir |-> NoFiles],
     [documents |-> <<StoreDoc>>, collection |-> {}, dir |-> FirstSave.dir]}
    \cup {[documents |-> <<r.doc>>, collection |-> r.coll, dir |-> FirstSave.dir] :
              r \in ChatProcessed}
    \cup {[documents |-> <<r.doc, SecondSave.doc_info[1]>>, collection |-> r.coll,
           dir |-> SecondSave.dir] : r \in ChatProcessed}

VizRows == <<[label |-> "a", value |-> 1]>>

VizReplies ==
    {<<>>,
     <<[type |-> "none"]>>,
     <<[type |-> "table", title |-> "t", data |-> <<VizRows>>]>>,
     <<[type |-> "chart", title |-> "t", data |-> <<VizRows>>, chart_type |-> "bar"]>>,
     <<[type |-> "chart", title |-> "t", chart_type |-> "bar"]>>,
     <<[type |-> "chart", title |-> "t", data |-> <<>>, chart_type |-> "bar"]>>}

\* extract_structured_data, data_visualizer.py lines 24-84: None on an
\* exception and on the type none, else the dict.
extract_structured_data(reply) ==
    IF reply = <<>> THEN <<>>
    ELSE IF Get(reply[1], "type", "") = "none" THEN <<>>
    ELSE reply

\* Line 257
indexed_docs(docs) == {i \in 1 .. Len(docs) : docs[i]["status"] = "indexed"}

\* Lines 277-283: the dict the visualizer gives for the result of query,
\* <<>> when it is not asked.
VizData(res, reply) ==
    IF Get(res, "needs_visualization", FALSE) /\ Get(res, "documents", <<>>) # <<>>
    THEN extract_structured_data(reply)
    ELSE <<>>

\* The request extract_structured_data makes when it is asked.
VizCalls(res) ==
    IF Get(res, "needs_visualization", FALSE) /\ Get(res, "documents", <<>>) # <<>>
    THEN <<"chat.completions.create">>
    ELSE <<>>

\* Lines 285-314 raise: len(viz_data.get('data', [])) of line 301 is taken
\* of None, a TypeError nothing in the script catches.
VizRaises(viz_data) ==
    /\ viz_data # <<>>
    /\ Get(viz_data[1], "type", "") = "chart"
    /\ Get(viz_data[1], "data", <<VizRows>>) = <<>>

\* Lines 262 and 321-325
UserMessage(prompt) == [role |-> "user", content |-> prompt]
AssistantMessage(res) ==
    [role |-> "assistant", content |-> res["answer"],
     sources |-> Get(res, "sources", <<>>)]

\* Lines 252-325: one run of the script with a question in the chat input.
Chat(o, reply) ==
    /\ rpc = "idle"
    /\ IF documents = <<>> \/ indexed_docs(documents) = {}
       THEN /\ messages' = messages
            /\ calls' = <<>>
            /\ returned' = <<>>
       ELSE /\ Len(messages) + 2 <= MaxMessages
            /\ \E q \in {query(o, search(o))} :
                   /\ calls' = q.calls \o VizCalls(q.value)
                   /\ returned' = <<q.value>>
                   /\ messages' =
                          IF VizRaises(VizData(q.value, reply))
                          THEN Append(messages, UserMessage(o.question))
                          ELSE Append(Append(messages, UserMessage(o.question)),
                                      AssistantMessage(q.value))
    /\ UNCHANGED <<documents, data_dir, collection, now, last_save, processed>>
    /\ UNCHANGED <<outcome, result, rpc>>
    /\ UNCHANGED chunk_vars

ChatInit ==
    /\ \E s \in ChatSessions :
          /\ documents = s.documents
          /\ collection = s.collection
          /\ data_dir = s.dir
    /\ now = Len(documents)
    /\ last_save = NoSave
    /\ processed = <<>>
    /\ messages = <<>>
    /\ CallIdle
    /\ ChunkIdle
    /\ cpc = "idle"

ChatNext == \E o \in QueryOutcomes(collection), reply \in VizReplies : Chat(o, reply)

ChatSpec == ChatInit /\ [][ChatNext]_vars

(***************************************************************************)
(* Properties of chunk_text, checked under ChunkSpec.                      *)
(***************************************************************************)

\* The list with chunk c if c is not empty, the empty list otherwise.
IfNotEmpty(c) == IF c # <<>> THEN <<c>> ELSE <<>>

\* C3 as stated: a text shorter than chunk_size gives exactly one chunk, the
\* trimmed text, or no chunk when the text is empty.
C3_OneChunkBelowChunkSize ==
    (cpc = "done" /\ Len(text) < 1000) =>
        IF text = <<>> THEN chunks = <<>> ELSE chunks = <<Strip(text)>>

\* C3 amended: a text shorter than chunk_size gives the trimmed text as its
\* chunk unless that is empty, followed, when the text is longer than
\* chunk_size - overlap = 800, by the trimmed text from offset 800 on unless
\* that is empty; so exactly one chunk up to length 800 when the text is not
\* blank, and none when it is blank.
C3_ChunksBelowChunkSize ==
    (cpc = "done" /\ Len(text) < 1000) =>
        /\ chunks = IfNotEmpty(Strip(text))
                    \o (IF Len(text) > 800
                        THEN IfNotEmpty(Strip(Slice(text, 800, Len(text))))
                        ELSE <<>>)
        /\ Len(text) <= 800 => Len(chunks) <= 1

C3_Witness ==
    /\ cpc = "done"
    /\ Len(text) > 800 /\ Len(text) < 1000
    /\ Len(chunks) = 2
    /\ chunks[1] = Strip(text)
    /\ chunks[1] # text

\* C4: when chunk_text returns, every character position of the text is in
\* the slice taken for at least one window, and no chunk is blank.
C4_WindowsCoverText ==
    cpc = "done" =>
        /\ \A i \in 0 .. (Len(text) - 1) :
              \E k \in 1 .. Len(windows) :
                  i \in SlicePositions(text, windows[k][1], windows[k][2])
        /\ \A k \in 1 .. Len(chunks) : Strip(chunks[k]) # <<>>

\* C5: every window starts strictly after the one before it.
C5_StartAdvances ==
    \A k \in 1 .. (Len(windows) - 1) : windows[k + 1][1] > windows[k][1]

\* C6: a text of length L without blanks and sentence endings is cut at the
\* offsets 0, 800, 1600, ... below L, the chunk at offset o being the
\* min(1000, L - o) characters from o on.
C6_PlainTextOffsets ==
    (cpc = "done" /\ Plain(text)) =>
        LET L == Len(text)
            offsets == {o \in 0 .. (L - 1) : o % 800 = 0}
        IN  /\ Len(windows) = Cardinality(offsets)
            /\ Len(chunks) = Cardinality(offsets)
            /\ \A k \in 1 .. Len(chunks) :
                  LET o == 800 * (k - 1)
                      len == IF L - o < 1000 THEN L - o ELSE 1000
                  IN  /\ windows[k][1] = o
                      /\ chunks[k] = SubSeq(text, o + 1, o + len)

C6_Witness ==
    /\ cpc = "done"
    /\ Plain(text)
    /\ Len(text) = 2500
    /\ Len(chunks) = 4
    /\ <<windows[1][1], windows[2][1], windows[3][1], windows[4][1]>> = <<0, 800, 1600, 2400>>
    /\ Len(chunks[4]) = 100

(***************************************************************************)
(* Properties of the session, checked under Spec.                          *)
(***************************************************************************)

DocIndexes == 1 .. Len(documents)

\* The entries of the collection stored under the name of document d.
StoredFor(d) == {e \in collection : e.metadata.document_name = d["name"]}

\* C1: a save_uploaded_file call with bytes whose digest is the digest of a
\* tracked document returns (None, "Duplicate file detected"), writes no
\* file and leaves the documents unchanged.
C1_DuplicateRejected ==
    [][\A f \in UploadedFiles :
          (/\ \E i \in DocIndexes : documents[i]["hash"] = get_file_hash(f.bytes)
           /\ \A i \in DocIndexes : documents[i]["name"] # f.name
           /\ Upload(f))
          => /\ last_save' = [doc_info |-> <<>>, error |-> <<"Duplicate file detected">>]
             /\ data_dir' = data_dir
             /\ documents' = documents]_vars

C1_Witness ==
    /\ last_save = [doc_info |-> <<>>, error |-> <<"Duplicate file detected">>]
    /\ Len(documents) = 1
    /\ DOMAIN data_dir = {documents[1]["path"]}

\* C2: no two tracked documents have the same digest.
C2_DigestsUnique ==
    \A i, j \in DocIndexes : i # j => documents[i]["hash"] # documents[j]["hash"]

C2_Witness ==
    /\ Len(documents) = 2
    /\ documents[1]["hash"] # documents[2]["hash"]
    /\ last_save.error = <<"Duplicate file detected">>

ResultStatuses == {"indexed", "failed_parsing", "failed_indexing", "error"}

\* C9 as stated: once a document has one of the statuses indexed,
\* failed_parsing, failed_indexing, error, no later action changes it.
C9_ResultStatusesTerminal ==
    [][\A i \in DocIndexes : \A j \in 1 .. Len(documents') :
          (/\ documents[i]["uploaded_at"] = documents'[j]["uploaded_at"]
           /\ documents[i]["status"] \in ResultStatuses)
          => documents'[j]["status"] = documents[i]["status"]]_vars

\* C9 amended: between handlers a document's status is uploaded or one of
\* indexed, failed_parsing, failed_indexing, error; a document that has one
\* of these four never goes back to uploaded or stays in processing; Process
\* All leaves a document in status indexed or error as it is.  The four are
\* not terminal: Process runs process_document again on a document in any
\* status, and Process All on one in failed_parsing or failed_indexing.
C9_StatusLifecycle ==
    /\ [](\A i \in DocIndexes :
            /\ documents[i]["status"] \in {"uploaded"} \cup ResultStatuses
            /\ documents[i]["status"] \in {"indexed", "error"} =>
                  \A outs \in ProcessAllOutcomes(documents) :
                      ProcessAllFrom(1, documents, collection, outs).docs[i] = documents[i])
    /\ [][\A i \in DocIndexes : \A j \in 1 .. Len(documents') :
            (/\ documents[i]["uploaded_at"] = documents'[j]["uploaded_at"]
             /\ documents[i]["status"] \in ResultStatuses)
            => documents'[j]["status"] \in ResultStatuses]_vars

\* A document indexed by an earlier run, with its entries stored, has failed
\* a later run.
C9_Witness ==
    \E i \in DocIndexes :
        /\ documents[i]["status"] = "error"
        /\ "num_chunks" \in DOMAIN documents[i]
        /\ StoredFor(documents[i]) # {}

\* C10: a document in status indexed with num_chunks = n has exactly n
\* entries stored under its name, one under each id digest_0 .. digest_(n-1).
C10_OneEntryPerChunk ==
    \A i \in DocIndexes :
        documents[i]["status"] = "indexed" =>
            /\ Cardinality(StoredFor(documents[i])) = documents[i]["num_chunks"]
            /\ {e.id : e \in StoredFor(documents[i])}
                  = {ChunkId(documents[i]["hash"], k) : k \in 0 .. (documents[i]["num_chunks"] - 1)}

(***************************************************************************)
(* Properties of one process_document call, checked under IngestSpec.      *)
(***************************************************************************)

\* The document of the call, its MIME type and the extraction of the call.
IngestDoc == documents[1]
IngestType == documents[1]["type"]
IngestExtraction == outcome.extract

SixTypes ==
    {"application/pdf",
     "application/vnd.openxmlformats-officedocument.wordprocessingml.document",
     "application/vnd.openxmlformats-officedocument.spreadsheetml.sheet",
     "image/png", "image/jpeg", "image/jpg"}

\* C12: process_document returns a boolean for every outcome, True exactly
\* when the document ends in status indexed; when it returns False the
\* status is failed_parsing, failed_indexing or error, not processing, and
\* the document has an error message.
C12_ProcessDocumentReturnsBoolean ==
    rpc = "done" =>
        /\ returned \in {<<TRUE>>, <<FALSE>>}
        /\ returned = <<TRUE>> <=> IngestDoc["status"] = "indexed"
        /\ returned = <<FALSE>> =>
              /\ IngestDoc["status"] \in {"failed_parsing", "failed_indexing", "error"}
              /\ "error" \in DOMAIN IngestDoc
              /\ IngestDoc["error"] # ""

\* chunk_text raised inside the call and the call returned False.
C12_Witness ==
    /\ rpc = "done"
    /\ outcome.chunk_raises
    /\ returned = <<FALSE>>
    /\ IngestDoc["status"] = "error"
    /\ IngestDoc["error"] = "chunk_text raised"

\* C13: when the extractor of a supported type raises part-way through the
\* file, after it has read at least one part, process_file reports status
\* error with an empty text, and nothing of the file is chunked or indexed.
C13_NoPartialTextAsSuccess ==
    (rpc # "call" /\ IngestType \in SixTypes /\ IngestExtraction.raise_at > 1) =>
        /\ result["status"] = "error"
        /\ result["text"] = <<>>
        /\ rpc = "done" => (collection = {} /\ IngestDoc["status"] # "indexed")

\* C14: when the extractor of a supported type raises, the message of the
\* exception is the error of process_file's result and, after
\* process_document, the error of the document.
C14_ExceptionMessageRetained ==
    (rpc # "call" /\ IngestType \in SixTypes /\ IngestExtraction.raise_at # 0) =>
        /\ "error" \in DOMAIN result
        /\ result["error"] = "cannot read part " \o ToString(IngestExtraction.raise_at)
        /\ rpc = "done" =>
              /\ "error" \in DOMAIN IngestDoc
              /\ IngestDoc["error"] = "cannot read part " \o ToString(IngestExtraction.raise_at)

\* C15: for a type outside the six supported ones process_file returns
\* status unsupported_type with an empty text, no pages and the error
\* "Unsupported file type: <type>" whatever an extractor would have done
\* with the file; process_document then returns False with the document in
\* failed_parsing under that error and the collection as it was.
C15_UnsupportedType ==
    (rpc # "call" /\ IngestType \notin SixTypes) =>
        /\ result = [text |-> <<>>, pages |-> <<>>, metadata |-> <<>>,
                     status |-> "unsupported_type",
                     error |-> "Unsupported file type: " \o IngestType]
        /\ rpc = "done" =>
              /\ returned = <<FALSE>>
              /\ IngestDoc["status"] = "failed_parsing"
              /\ IngestDoc["error"] = "Unsupported file type: " \o IngestType
              /\ collection = {}

\* A file of an unsupported type that a reader would have read in full.
C15_Witness ==
    /\ rpc = "done"
    /\ IngestType = "text/plain"
    /\ IngestExtraction.raise_at = 0
    /\ IngestExtraction.pages = <<Letters(31), Letters(31)>>
    /\ IngestDoc["status"] = "failed_parsing"
    /\ collection = {}

\* The trimmed characters of all pages of the PDF of the call.
RECURSIVE TrimmedChars(_)
TrimmedChars(k) ==
    IF k = 0 THEN 0
    ELSE Len(Strip(IngestExtraction.pages[k])) + TrimmedChars(k - 1)

\* The PDF of the call was read in full and averages fewer than 30 trimmed
\* characters a page (an average of 0 for no page).
LooksScanned ==
    /\ IngestType = "application/pdf"
    /\ IngestExtraction.raise_at = 0
    /\ TrimmedChars(Len(IngestExtraction.pages)) < 30 * Len(IngestExtraction.pages)
       \/ IngestExtraction.pages = <<>>

\* The pages of the PDF joined by blank lines.
DirectText == Join(IngestExtraction.pages, <<"LF", "LF">>)

\* C16 as stated: a PDF read in full whose pages average fewer than 30
\* trimmed characters is returned with method ocr when there is an OCR
\* processor, and any other PDF read in full as the direct extraction with
\* method text_extraction.
C16_ScannedPdfMethodOcr ==
    (rpc # "call" /\ IngestType = "application/pdf" /\ IngestExtraction.raise_at = 0) =>
        IF LooksScanned /\ IngestExtraction.ocr_available
        THEN result["metadata"]["method"] = "ocr"
        ELSE /\ result["metadata"]["method"] = "text_extraction"
             /\ result["text"] = DirectText

\* C16 amended: such a PDF is handed to process_scanned_pdf when there is
\* an OCR processor, and is returned with method ocr and the OCR text when
\* process_scanned_pdf reports success; when it reports an error, as when it
\* cannot open the file, and for any other PDF read in full, the direct
\* extraction is returned with method text_extraction.
C16_ScannedPdfMethodOcrUnlessOcrError ==
    (rpc # "call" /\ IngestType = "application/pdf" /\ IngestExtraction.raise_at = 0) =>
        IF LooksScanned /\ IngestExtraction.ocr_available /\ ~IngestExtraction.ocr_raises
        THEN /\ result["metadata"]["method"] = "ocr"
             /\ result["metadata"]["num_pages"] = Len(IngestExtraction.pages)
             /\ Len(result["pages"]) = Cardinality(IngestExtraction.ocr_ok)
        ELSE /\ result["metadata"]["method"] = "text_extraction"
             /\ result["text"] = DirectText
             /\ Len(result["pages"]) = Len(IngestExtraction.pages)

\* Two pages of 29 trimmed characters each, both transcribed.
C16_Witness ==
    /\ rpc = "done"
    /\ LooksScanned
    /\ IngestExtraction.pages = <<<<" ">> \o Letters(29) \o <<"LF">>,
                                  <<" ">> \o Letters(29) \o <<"LF">>>>
    /\ IngestExtraction.ocr_ok = {1, 2}
    /\ result["metadata"]["method"] = "ocr"
    /\ result["text"] # DirectText

\* C17: when the transcription of every page of a scanned PDF fails,
\* process_pdf returns the direct extraction with method text_extraction;
\* when it fails for some pages only, the OCR result is returned and holds
\* the pages transcribed and no other.
C17_AllPagesFailedFallsThrough ==
    (/\ rpc # "call"
     /\ LooksScanned
     /\ IngestExtraction.pages # <<>>
     /\ IngestExtraction.ocr_available
     /\ ~IngestExtraction.ocr_raises) =>
        IF IngestExtraction.ocr_ok = {}
        THEN /\ result["metadata"]["method"] = "text_extraction"
             /\ result["text"] = DirectText
        ELSE /\ result["metadata"]["method"] = "ocr"
             /\ {result["pages"][k]["page_number"] : k \in 1 .. Len(result["pages"])}
                   = IngestExtraction.ocr_ok

(***************************************************************************)
(* Properties of add_documents, checked under StoreSpec.                   *)
(***************************************************************************)

\* The entries of the positions whose embedding succeeded: chunk, metadata
\* and id of one position together.
C11_Embedded ==
    {[id |-> StoreDoc["hash"] \o "_" \o ToString(k - 1),
      document |-> "chunk " \o ToString(k - 1),
      metadata |-> [document_name |-> StoreDoc["name"],
                    chunk_id |-> k - 1,
                    page |-> ((k - 1) \div 3) + 1,
                    uploaded_at |-> StoreDoc["uploaded_at"]]] :
        k \in outcome.emb_ok}

\* C11 as stated: add_documents returns True when at least one embedding
\* succeeded, and the collection then holds, besides what it held, the
\* entries of exactly the positions embedded; it returns False and stores
\* nothing when every embedding failed.
C11_StoresEmbeddedPositions ==
    rpc = "done" =>
        /\ returned = <<outcome.emb_ok # {}>>
        /\ collection = outcome.before \cup C11_Embedded

\* C11 amended: add_documents returns True when at least one embedding
\* succeeded and collection.add did not raise, and the collection then
\* holds, besides what it held, the entries of exactly the positions
\* embedded, each pairing the chunk, the metadata and the id of one
\* position; it returns False and stores nothing when every embedding
\* failed or collection.add raised.
C11_StoresEmbeddedPositionsUnlessAddRaises ==
    rpc = "done" =>
        /\ returned = <<outcome.emb_ok # {} /\ ~outcome.add_raises>>
        /\ collection = IF returned = <<TRUE>>
                        THEN outcome.before \cup C11_Embedded
                        ELSE outcome.before
        /\ \A e \in collection :
              /\ e.id = StoreDoc["hash"] \o "_" \o ToString(e.metadata.chunk_id)
              /\ e.document = "chunk " \o ToString(e.metadata.chunk_id)

\* Of four chunks the second and the fourth were embedded and stored.
C11_Witness ==
    /\ rpc = "done"
    /\ outcome.n = 4
    /\ outcome.emb_ok = {2, 4}
    /\ outcome.before = {}
    /\ returned = <<TRUE>>
    /\ {e.document : e \in collection} = {"chunk 1", "chunk 3"}

(***************************************************************************)
(* Properties of search and query, checked under QuerySpec.                *)
(***************************************************************************)

\* C18: when the embedding of the question fails, search returns empty
\* documents, metadatas and distances after the embedding request alone,
\* and query returns the no-relevant-documents answer with no sources
\* without a request to the language model.
C18_EmbeddingFailureGivesNoHits ==
    ~outcome.embedding_ok =>
        /\ rpc # "call" =>
              /\ result = [documents |-> <<>>, metadatas |-> <<>>, distances |-> <<>>]
              /\ calls = <<"embeddings.create">>
        /\ rpc = "done" =>
              /\ returned[1]["answer"] = "No relevant documents found to answer this question."
              /\ returned[1]["sources"] = <<>>
              /\ returned[1]["success"] = FALSE

\* The embedding failed for a question the collection has three entries
\* for.
C18_Witness ==
    /\ rpc = "done"
    /\ ~outcome.embedding_ok
    /\ Len(outcome.hits) = 3
    /\ ~outcome.query_raises
    /\ returned[1]["sources"] = <<>>

\* C20: the sources of an answer are the strings
\* "<document_name> - Page <page>" of the metadata list ("Unknown" for a
\* key that is missing), each once, in the order in which they first occur
\* in the list.
C20_SourcesInOrderOfFirstOccurrence ==
    (rpc = "done" /\ returned[1]["success"]) =>
        LET metadata == result["metadatas"]
            sources == returned[1]["sources"]
            Name(m) == IF "document_name" \in DOMAIN m THEN m["document_name"] ELSE "Unknown"
            Page(m) == IF "page" \in DOMAIN m THEN ToString(m["page"]) ELSE "Unknown"
            Source(m) == Name(m) \o " - Page " \o Page(m)
            First(s) == CHOOSE k \in DOMAIN metadata :
                            /\ Source(metadata[k]) = s
                            /\ \A j \in 1 .. (k - 1) : Source(metadata[j]) # s
        IN  /\ {sources[i] : i \in DOMAIN sources}
                  = {Source(metadata[k]) : k \in DOMAIN metadata}
            /\ \A i, j \in DOMAIN sources : i # j => sources[i] # sources[j]
            /\ \A i, j \in DOMAIN sources : i < j => First(sources[i]) < First(sources[j])

\* Three hits, the second page of a.pdf before two chunks of its first.
C20_Witness ==
    /\ rpc = "done"
    /\ returned[1]["success"]
    /\ Len(result["metadatas"]) = 3
    /\ returned[1]["sources"] = <<"a.pdf - Page 2", "a.pdf - Page 1">>

(***************************************************************************)
(* Process All, checked under Spec.                                        *)
(***************************************************************************)

\* C19: a Process All click calls process_document once on each document
\* whose status is uploaded, failed_parsing or failed_indexing, in the
\* order of the list, whatever the calls before it returned, and on no
\* other document: each of these documents leaves the run in a status
\* process_document sets and every other document as it was.
C19_ProcessAllRunsEachPending ==
    [][processed' # <<>> =>
          LET Pending(i) == documents[i]["status"] \in
                                {"uploaded", "failed_parsing", "failed_indexing"}
          IN  /\ processed'[1] = SelectSeq([i \in DocIndexes |-> i], Pending)
              /\ Len(documents') = Len(documents)
              /\ \A i \in DocIndexes :
                    IF Pending(i)
                    THEN documents'[i]["status"] \in
                            {"indexed", "failed_parsing", "failed_indexing", "error"}
                    ELSE documents'[i] = documents[i]]_vars

\* Process All ran on both documents: the first failed, the second was
\* indexed.
C19_Witness ==
    /\ processed = <<<<1, 2>>>>
    /\ documents[1]["status"] = "failed_indexing"
    /\ documents[2]["status"] = "indexed"

(***************************************************************************)
(* Properties of the failures of a query, checked under QuerySpec.         *)
(***************************************************************************)

\* The call reached collection.query and collection.query raised.
RetrievalRaised == outcome.embedding_ok /\ outcome.query_raises

\* The call reached the chat completion request and the request raised.
GenerationRaised ==
    /\ outcome.embedding_ok
    /\ ~outcome.query_raises
    /\ outcome.hits # <<>>
    /\ outcome.llm_raises

\* C21 as stated: query returns for every outcome, and when collection.query
\* or the chat completion request raised, the result has success False, no
\* sources and an answer that reports the error.
C21_FailuresReportedInAnswer ==
    rpc = "done" =>
        /\ Len(returned) = 1
        /\ (RetrievalRaised \/ GenerationRaised) =>
              /\ returned[1]["success"] = FALSE
              /\ returned[1]["sources"] = <<>>
              /\ returned[1]["answer"] \in
                    {"Error generating response: request failed",
                     "Error processing query: request failed"}

\* C21 amended: query returns a dict with an answer for every outcome; when
\* the chat completion request raised, the result has success False, no
\* sources and the answer "Error generating response: " followed by the
\* error text; when collection.query raised, search has swallowed the
\* exception and the result has success False, no sources and the
\* no-relevant-documents answer, the same as for a question without hits.
C21_FailuresGiveDisplayableAnswer ==
    rpc = "done" =>
        /\ Len(returned) = 1
        /\ {"answer", "sources", "success"} \subseteq DOMAIN returned[1]
        /\ GenerationRaised =>
              /\ returned[1]["success"] = FALSE
              /\ returned[1]["sources"] = <<>>
              /\ returned[1]["answer"] =
                    "Error generating response: " \o returned[1]["error"]
              /\ returned[1]["error"] = "request failed"
        /\ (RetrievalRaised \/ (outcome.embedding_ok /\ outcome.hits = <<>>)) =>
              /\ returned[1]["success"] = FALSE
              /\ returned[1]["sources"] = <<>>
              /\ returned[1]["answer"] =
                    "No relevant documents found to answer this question."
              /\ "error" \notin DOMAIN returned[1]

\* The chat completion request raised on a question with two hits.
C21_Witness ==
    /\ rpc = "done"
    /\ GenerationRaised
    /\ Len(outcome.hits) = 2
    /\ returned[1]["success"] = FALSE
    /\ returned[1]["answer"] = "Error generating response: request failed"

(***************************************************************************)
(* Properties of the image placeholder, checked under PipelineSpec.        *)
(***************************************************************************)

\* The call is on an image that opens, and there is no OCR processor.
ImageWithoutOcr ==
    /\ IngestType \in {"image/png", "image/jpeg", "image/jpg"}
    /\ IngestExtraction.raise_at = 0
    /\ ~IngestExtraction.ocr_available

OccurrencesIn(m, st) ==
    {i \in 0 .. (Len(text) - Len(m)) :
        /\ i >= st
        /\ i + Len(m) <= st + chunk_size
        /\ \A j \in 1 .. Len(m) : text[i + j] = m[j]}

\* Where the window from st on ends by the rule of the endings: after the
\* last occurrence of the first ending, in the order they are tried, that
\* occurs in the window, when the window ends before the end of the text and
\* an ending occurs in it; chunk_size characters after st otherwise.
EndByRule(st) ==
    LET occurring == {k \in 1 .. Len(Puncts) : OccurrencesIn(Puncts[k], st) # {}}
    IN  IF st + chunk_size < Len(text) /\ occurring # {}
        THEN LET m == Puncts[Min(occurring)]
             IN  Max(OccurrencesIn(m, st)) + Len(m)
        ELSE st + chunk_size

\* C23: every window of a run ends where the rule of the endings puts it.
C23_WindowsCutAtPreferredEnding ==
    \A k \in 1 .. Len(windows) : windows[k][2] = EndByRule(windows[k][1])

(***************************************************************************)
(* Properties of the add_documents call of process_document, checked       *)
(* under IngestSpec.                                                       *)
(***************************************************************************)

\* C24: process_document calls add_documents exactly when chunk_text
\* returned chunks, with those n chunks, n metadata records and n ids;
\* position i, counted from 0, carries chunk_id i, page i // 3 + 1, the name
\* and the upload timestamp of the document, and the id "<digest>_<i>".
C24_OneMetadataAndIdPerChunk ==
    rpc = "done" =>
        /\ Len(calls) <= 1
        /\ calls # <<>> <=> /\ result["status"] = "success"
                            /\ \E k \in 1 .. Len(result["text"]) :
                                  result["text"][k] \notin {" ", "LF"}
                            /\ ~outcome.chunk_raises
        /\ calls # <<>> =>
              LET n == outcome.n
              IN  /\ Len(calls[1].chunks) = n
                  /\ Len(calls[1].metadatas) = n
                  /\ Len(calls[1].ids) = n
                  /\ \A i \in 0 .. (n - 1) :
                        /\ calls[1].chunks[i + 1] = "chunk " \o ToString(i)
                        /\ calls[1].metadatas[i + 1] =
                              [document_name |-> IngestDoc["name"],
                               chunk_id |-> i,
                               page |-> (i \div 3) + 1,
                               uploaded_at |-> IngestDoc["uploaded_at"]]
                        /\ calls[1].ids[i + 1] =
                              IngestDoc["hash"] \o "_" \o ToString(i)

\* A document of four chunks or more was handed over: the fourth chunk is
\* on page 2.
C24_Witness ==
    /\ rpc = "done"
    /\ calls # <<>>
    /\ Len(calls[1].chunks) >= 4
    /\ calls[1].metadatas[4]["page"] = 2
    /\ calls[1].metadatas[3]["page"] = 1
    /\ calls[1].ids[4] = IngestDoc["hash"] \o "_3"

(***************************************************************************)
(* Properties of the session after deletions, checked under Spec.          *)
(***************************************************************************)

C26_EntriesOnlyForIndexed ==
    \A i \in DocIndexes :
        StoredFor(documents[i]) # {} => documents[i]["status"] = "indexed"

\* C27: a tracked document in status indexed has no error field.
C27_IndexedWithoutError ==
    \A i \in DocIndexes :
        documents[i]["status"] = "indexed" => "error" \notin DOMAIN documents[i]

\* The display names of the tracked documents are pairwise distinct.
NamesUnique ==
    \A i, j \in DocIndexes : documents[i]["name"] = documents[j]["name"] => i = j

\* C28: no two tracked documents share a display name, and the upload of a
\* file whose name is tracked, whatever its bytes, leaves the documents and
\* the data directory as they were and calls save_uploaded_file for nothing:
\* no digest, no file written, no document registered, no message.
C28_TrackedNameSkipped ==
    [][/\ NamesUnique'
       /\ \A f \in UploadedFiles :
              (/\ Upload(f)
               /\ \E i \in DocIndexes : documents[i]["name"] = f.name)
              => /\ documents' = documents
                 /\ data_dir' = data_dir
                 /\ now' = now
                 /\ last_save' = NoSave]_vars

\* a.pdf with bytes <<2, 2>> is the only document ever accepted, and a later
\* run of the upload loop skipped a file named a.pdf.
C28_Witness ==
    /\ Len(documents) = 1
    /\ documents[1]["name"] = "a.pdf"
    /\ documents[1]["hash"] = "a1fc"
    /\ documents[1]["status"] = "uploaded"
    /\ now = 1
    /\ last_save = NoSave
    /\ data_dir = SetKey(NoFiles, "data/a.pdf", <<2, 2>>)

(***************************************************************************)
(* Properties of the chat input handler, checked under ChatSpec.           *)
(***************************************************************************)

\* C29: a run of the chat handler with no tracked document in status
\* indexed makes no request and leaves the chat history as it was; any
\* other run calls the engine and appends to the history exactly one user
\* message followed by exactly one assistant message.
C29_QuestionsAnsweredOnlyWhenIndexed ==
    [][IF \E i \in DocIndexes : documents[i]["status"] = "indexed"
       THEN /\ calls' # <<>>
            /\ Len(messages') = Len(messages) + 2
            /\ SubSeq(messages', 1, Len(messages)) = messages
            /\ messages'[Len(messages) + 1]["role"] = "user"
            /\ messages'[Len(messages) + 2]["role"] = "assistant"
       ELSE /\ calls' = <<>>
            /\ messages' = messages]_vars

====
